---- MODULE Spec2Model ----
(***************************************************************************)
(* A model of five parts of aws-utils:                                     *)
(*                                                                         *)
(*  - whitelistSelfCommand.processSG (cmd_stacks.go), which reconciles     *)
(*    one labelled ingress rule of a security group with the caller's IP,  *)
(*    together with the EC2 calls it makes (Spec, SpecRace);               *)
(*  - whitelistSelfCommand.Execute and processRules, which drive processSG *)
(*    over the entries of the configuration files (SpecDriver);            *)
(*  - utils.HandleRoles (utils/utils.go), which runs a callback once, or   *)
(*    once per line of a role file, and the Execute of the sub-commands    *)
(*    that call it (SpecRoles);                                            *)
(*  - rotateKeysCommand.Execute and confirm (SpecRotate);                  *)
(*  - stacksCommand.DisplayStacks (SpecStacks).                            *)
(*                                                                         *)
(* The security group lives in the remote service; every EC2 call is one   *)
(* atomic step, so that two runs of the tool may interleave between calls. *)
(***************************************************************************)
EXTENDS Integers, Sequences, FiniteSets, TLC

(***************************************************************************)
(* Bounds of the model.                                                    *)
(***************************************************************************)
\* Largest number of ingress rules the security group holds initially.
MaxRules == 3

\* The same, when two runs of the tool are interleaved.
MaxRaceRules == 1

\* Largest number of lines of a role file.
MaxLines == 3

(***************************************************************************)
(* The security group.                                                     *)
(***************************************************************************)
Protos == {"tcp", "udp"}
Ports == {22, 443}
Cidrs == {"1.2.3.4/32", "5.6.7.8/32"}

\* ec2.IpRange.Description is a *string: a rule created without a
\* description comes back from DescribeSecurityGroups with a nil pointer.
NoDesc == "<nil>"
Labels == {"home-ssh"}
Descs == Labels \cup {"other", NoDesc}

\* One ingress rule: an IpPermission (protocol, port) with one IpRange
\* (CIDR, description).
Rules == [proto : Protos, port : Ports, cidr : Cidrs, desc : Descs]

\* The service identifies a rule by protocol, port range and CIDR; the
\* description is an attribute of the rule.
Key(r) == <<r.proto, r.port, r.cidr>>

HasKey(g, r) == \E x \in g : Key(x) = Key(r)

\* The groups of at most n rules, no two with the same key.
RECURSIVE GroupsUpTo(_)
GroupsUpTo(n) ==
    IF n = 0 THEN {{}}
    ELSE LET smaller == GroupsUpTo(n - 1)
         IN  smaller \cup
             {g \cup {r} : g \in smaller, r \in {x \in Rules : TRUE}}

Groups == {g \in GroupsUpTo(MaxRules) :
             \A r1, r2 \in g : Key(r1) = Key(r2) => r1 = r2}

\* The rules of g whose description is desc.
Labelled(g, desc) == {r \in g : r.desc = desc}

(***************************************************************************)
(* State.                                                                  *)
(***************************************************************************)
AllProcs == {1, 2}

VARIABLES
    sg,      \* the ingress rules of the security group, in the service
    sg0,     \* the rules the group held initially
    egress,  \* the egress rules of the security group, in the service
    IP,      \* IP[p]: whitelistSelfCommand.IP of run p
    pc,      \* pc[p]: where run p is
    cur,     \* cur[p]: the processSG call run p is in (or has just ended)
    prev     \* prev[p]: summary of the call of run p before cur[p]

sgVars == <<sg, sg0, egress, IP, pc, cur, prev>>

VARIABLES
    roleFile,  \* HandleRoles' roleFile argument: a path, or ""
    lines,     \* the lines of the role file, as its scanner yields them
    input,     \* what the identifier `input` of utils.go:114 stands for
    hrpc,      \* where HandleRoles is
    scanned,   \* the number of lines the scanner has yielded
    calls,     \* the callback invocations so far, in order
    errs,      \* HandleRoles' errs
    opened,    \* whether os.Open(roleFile) has been called
    code       \* <<n>> once the sub-command's Execute has returned n

hrVars == <<roleFile, lines, input, hrpc, scanned, calls, errs, opened, code>>

VARIABLES
    args,      \* whitelist-self: the configuration files named on the command line
    fileNo,    \* the number of files Execute has passed to processRules
    entryNo,   \* the number of entries of the file processRules has taken up
    log,       \* what became of each file and entry, in order
    exit       \* <<n>> once the process has ended with exit code n

drVars == <<args, fileNo, entryNo, log, exit>>

VARIABLES
    Force,     \* rotate-keys: the -force flag
    stdin,     \* what standard input holds, as characters
    iamKeys,   \* the access keys of the user, as ListAccessKeys lists them
    listed,    \* keys.AccessKeyMetadata: what ListAccessKeys returned
    credFile,     \* the credentials file: its lines, or <<"missing">>
    rkpc,      \* where rotate-keys' Execute is
    rkops,     \* the changes Execute has made, in order
    rkexit     \* <<n>> once Execute has returned n

rkVars == <<Force, stdin, iamKeys, listed, credFile, rkpc, rkops, rkexit>>

VARIABLES
    filter,      \* stacks: the -filter flag, as characters
    all,         \* the -all flag
    status,      \* the -status flag
    policy,      \* whether -policy named a policy
    summaries,   \* resp.StackSummaries: the (name, status) pairs listed
    keys,        \* the sorted names DisplayStacks has still to go through
    printed,     \* what DisplayStacks has printed, in order
    applied,     \* the stacks SetStackPolicy was called for, in order
    stpc,        \* where DisplayStacks is
    stResult     \* what DisplayStacks returned

stVars == <<filter, all, status, policy, summaries, keys, printed, applied,
            stpc, stResult>>

VARIABLES
    zones,     \* orphaned-zones: r.HostedZones, each with what LookupNS answers
    zoneNo,    \* how many of them the loop has been through
    valid,     \* the names collected as valid, in order
    orphan,    \* the names collected as orphan
    error,     \* the names whose lookup failed
    shown,     \* the lines printed, in order
    zpc,       \* where orphaned-zones' Execute is
    zexit      \* <<n>> once Execute has returned n

znVars == <<zones, zoneNo, valid, orphan, error, shown, zpc, zexit>>

VARIABLES
    cf         \* stacks with HandleRoles: the CloudFormation clients
               \* DisplayStacks has built, one per invocation

\* What the processSG actions leave alone, what the HandleRoles actions
\* leave alone, what the whitelist-self driver leaves alone, what
\* rotate-keys leaves alone, what stacks leaves alone, what orphaned-zones
\* leaves alone and what the callback of stacks leaves alone.
notSG == <<hrVars, drVars, rkVars, stVars, znVars, cf>>
notHR == <<sgVars, drVars, rkVars, stVars, znVars, cf>>
notDR == <<hrVars, rkVars, stVars, znVars, cf>>
notRK == <<sgVars, hrVars, drVars, stVars, znVars, cf>>
notST == <<sgVars, hrVars, drVars, rkVars, znVars, cf>>
notZN == <<sgVars, hrVars, drVars, rkVars, stVars, cf>>
notCF == <<sgVars, drVars, rkVars, stVars, znVars>>

vars == <<sg, sg0, egress, IP, pc, cur, prev,
          roleFile, lines, input, hrpc, scanned, calls, errs, opened, code,
          args, fileNo, entryNo, log, exit,
          Force, stdin, iamKeys, listed, credFile, rkpc, rkops, rkexit,
          filter, all, status, policy, summaries, keys, printed, applied,
          stpc, stResult,
          zones, zoneNo, valid, orphan, error, shown, zpc, zexit,
          cf>>

\* cur[p]: the arguments of the call (desc, port; the address is IP[p]),
\* the rules the group held when the call began (pre), what Describe
\* returned (snap), the mutating calls issued so far (ops) and the result:
\*   "running"   not returned yet
\*   "nil"       returned nil
\*   "describe"  returned the error of DescribeSecurityGroups
\*   "ambiguous" returned "there are <n> rules which have the description
\*               '<desc>' - aborting"; msg holds <<n, desc>>
\*   "remove"    returned "error removing entry <err>"
\*   "add"       returned the error of AuthorizeSecurityGroupIngress
\*   "panic"     did not return: nil pointer dereference
NoCall == [desc |-> "", port |-> 0, pre |-> {}, snap |-> {},
           ops |-> <<>>, result |-> "none", msg |-> <<>>]

NoPrev == [desc |-> "", port |-> 0, pre |-> {}, ops |-> <<>>, result |-> "none"]

(***************************************************************************)
(* Text.  A string is a sequence of characters.                            *)
(***************************************************************************)
IsSpace(c) == c \in {" ", "\t", "\n", "\r"}

RECURSIVE TrimLeft(_)
TrimLeft(s) ==
    IF s # <<>> /\ IsSpace(Head(s)) THEN TrimLeft(Tail(s)) ELSE s

RECURSIVE TrimRight(_)
TrimRight(s) ==
    IF s # <<>> /\ IsSpace(s[Len(s)])
    THEN TrimRight(SubSeq(s, 1, Len(s) - 1))
    ELSE s

\* strings.TrimSpace
TrimSpace(s) == TrimRight(TrimLeft(s))

\* strings.HasPrefix
HasPrefix(s, prefix) ==
    /\ Len(s) >= Len(prefix)
    /\ SubSeq(s, 1, Len(prefix)) = prefix

\* strings.Split(s, ":"): the fields between the colons, at least one.
RECURSIVE Split(_)
Split(s) ==
    IF \A i \in 1..Len(s) : s[i] # ":"
    THEN <<s>>
    ELSE LET i == CHOOSE k \in 1..Len(s) :
                     /\ s[k] = ":"
                     /\ \A j \in 1..(k - 1) : s[j] # ":"
         IN  <<SubSeq(s, 1, i - 1)>> \o Split(SubSeq(s, i + 1, Len(s)))

Colon == <<":">>
Hash == <<"#">>
Arn == <<"a", "r", "n">>
ArnUpper == <<"A", "R", "N">>
Aws == <<"a", "w", "s">>
Iam == <<"i", "a", "m">>
RolePath == <<"r", "o", "l", "e", "/">>
Account1 == <<"1", "1", "1", "1", "2", "2", "2", "2", "3", "3", "3", "3">>
Account2 == <<"4", "4", "4", "4", "5", "5", "5", "5", "6", "6", "6", "6">>
Account3 == <<"7", "7", "7">>
\* The account GetCallerIdentity answers with.
DefaultAccount == <<"0", "0", "0">>

\* "arn:aws:iam::111122223333:role/alpha"
LineAlpha ==
    Arn \o Colon \o Aws \o Colon \o Iam \o Colon \o Colon \o Account1
        \o Colon \o RolePath \o <<"a", "l", "p", "h", "a">>
\* "arn:aws:iam::444455556666:role/beta"
LineBeta ==
    Arn \o Colon \o Aws \o Colon \o Iam \o Colon \o Colon \o Account2
        \o Colon \o RolePath \o <<"b", "e", "t", "a">>
\* "ARN:aws:iam::777:role/x"
LineUpper ==
    ArnUpper \o Colon \o Aws \o Colon \o Iam \o Colon \o Colon \o Account3
        \o Colon \o RolePath \o <<"x">>
\* "# comment"
LineComment == Hash \o <<" ", "c", "o", "m", "m", "e", "n", "t">>
LineBlank == <<>>
\* "not-a-role-line"
LineNotRole ==
    <<"n", "o", "t", "-", "a", "-", "r", "o", "l", "e", "-", "l", "i", "n", "e">>
\* "  arn:aws:iam::111122223333:role/alpha " (indented, trailing space)
LineIndented == <<" ", " ">> \o LineAlpha \o <<" ">>
\* "arn:aws" (the prefix, but two fields only)
LineShort == Arn \o Colon \o Aws

LineTexts ==
    {LineComment, LineAlpha, LineBlank, LineBeta, LineNotRole, LineIndented,
     LineShort}

InputTexts ==
    {LineComment, LineAlpha, LineBlank, LineUpper, LineNotRole, LineIndented,
     LineShort}

\* The role file of the scenario of the specification.
ScenarioFile == <<LineComment, LineAlpha, LineBlank, LineBeta, LineNotRole>>

RECURSIVE FilesUpTo(_)
FilesUpTo(n) ==
    IF n = 0 THEN {<<>>}
    ELSE LET shorter == FilesUpTo(n - 1)
         IN  shorter \cup {Append(f, l) : f \in shorter, l \in LineTexts}

Files == FilesUpTo(MaxLines) \cup {ScenarioFile}

(***************************************************************************)
(* utils.HandleRoles.                                                      *)
(***************************************************************************)
\* One callback invocation: the account passed, the credentials of the
\* client passed ("base" for the session's own, else the role assumed), the
\* line being processed (0 without a role file) and whether it returned nil.
Call(account, creds, line, ok) ==
    [account |-> account, creds |-> creds, line |-> line, ok |-> ok]

\* One element of errs: "identity" (failed to get identity), "open" (failed
\* to open role-file), "callback" (error invoking callback, with the line
\* being processed) or "scanner" (error processing role-file).
Err(kind, line) == [kind |-> kind, line |-> line]

\* The sub-commands that use HandleRoles (csv-instances, instances, sg-grep,
\* stacks, subnets): Execute returns 1 before it calls HandleRoles when
\* utils.NewSession fails (sg-grep: also without arguments; stacks: also
\* when the policy file cannot be read).
ExecuteNoSession ==
    /\ hrpc = "start"
    /\ code = <<>>
    /\ code' = <<1>>
    /\ hrpc' = "notcalled"
    /\ UNCHANGED <<roleFile, lines, input, scanned, calls, errs, opened>>
    /\ UNCHANGED notHR

\* An identity lookup whose failure is noted but does not end HandleRoles.
GetCallerIdentity_GoesOn ==
    /\ hrpc = "start"
    /\ \/ /\ errs' = <<Err("identity", 0)>>
          /\ hrpc' = "identified"
       \/ /\ errs' = errs
          /\ hrpc' = "identified"
    /\ UNCHANGED <<roleFile, lines, input, scanned, calls, opened, code>>
    /\ UNCHANGED notHR

\* svc.GetCallerIdentity on the base session: on failure HandleRoles
\* returns the one error.
GetCallerIdentity ==
    /\ hrpc = "start"
    /\ \/ /\ errs' = <<Err("identity", 0)>>
          /\ hrpc' = "returned"
       \/ /\ errs' = errs
          /\ hrpc' = "identified"
    /\ UNCHANGED <<roleFile, lines, input, scanned, calls, opened, code>>
    /\ UNCHANGED notHR

\* A run with no role file that loses the callback's error.
RunDefault_ErrorDropped ==
    /\ hrpc = "identified"
    /\ roleFile = <<>>
    /\ \E ok \in BOOLEAN :
         calls' = Append(calls, Call(DefaultAccount, "base", 0, ok))
    /\ errs' = errs
    /\ hrpc' = "returned"
    /\ UNCHANGED <<roleFile, lines, input, scanned, opened, code>>
    /\ UNCHANGED notHR

\* roleFile == "": the callback runs once with a client of the session and
\* the account of the identity lookup.
RunDefault ==
    /\ hrpc = "identified"
    /\ roleFile = <<>>
    /\ \E ok \in BOOLEAN :
         /\ calls' = Append(calls, Call(DefaultAccount, "base", 0, ok))
         /\ errs' = IF ok THEN errs ELSE Append(errs, Err("callback", 0))
    /\ hrpc' = "returned"
    /\ UNCHANGED <<roleFile, lines, input, scanned, opened, code>>
    /\ UNCHANGED notHR

\* An Open whose error is noted but does not end HandleRoles.
OpenRoleFile_GoesOn ==
    /\ hrpc = "identified"
    /\ roleFile # <<>>
    /\ \/ /\ errs' = <<Err("open", 0)>>
          /\ hrpc' = "loop"
       \/ /\ errs' = errs
          /\ hrpc' = "loop"
    /\ opened' = TRUE
    /\ UNCHANGED <<roleFile, lines, input, scanned, calls, code>>
    /\ UNCHANGED notHR

\* os.Open(roleFile): on failure HandleRoles returns the one error.
OpenRoleFile ==
    /\ hrpc = "identified"
    /\ roleFile # <<>>
    /\ \/ /\ errs' = <<Err("open", 0)>>
          /\ hrpc' = "returned"
       \/ /\ errs' = errs
          /\ hrpc' = "loop"
    /\ opened' = TRUE
    /\ UNCHANGED <<roleFile, lines, input, scanned, calls, code>>
    /\ UNCHANGED notHR

\* The text the loop trims: the code reads scanner.Text() into role and
\* then assigns role = strings.TrimSpace(input).  No `input` is declared
\* in the function or the package, so it stands for a text the line does
\* not determine: any one of InputTexts, the same throughout the call.
TrimArgument(line) == input

\* One pass of the loop body, for the line the scanner has just yielded.
ScanLine ==
    /\ hrpc = "loop"
    /\ scanned < Len(lines)
    /\ scanned' = scanned + 1
    /\ LET role == TrimSpace(TrimArgument(lines[scanned + 1]))
           data == Split(role)
       IN  IF HasPrefix(role, Hash)
           THEN UNCHANGED <<hrpc, calls, errs>>
           ELSE IF ~HasPrefix(role, Arn \o Colon) /\ ~HasPrefix(role, ArnUpper \o Colon)
           THEN UNCHANGED <<hrpc, calls, errs>>
           ELSE IF Len(data) < 5
           THEN \* data[4]: index out of range
                /\ hrpc' = "panicked"
                /\ UNCHANGED <<calls, errs>>
           ELSE \E ok \in BOOLEAN :
                  /\ calls' = Append(calls, Call(data[5], role, scanned + 1, ok))
                  /\ errs' = IF ok THEN errs
                             ELSE Append(errs, Err("callback", scanned + 1))
                  /\ hrpc' = hrpc
    /\ UNCHANGED <<roleFile, lines, input, opened, code>>
    /\ UNCHANGED notHR

\* scanner.Scan() returns false: at the end of the file, or on a read
\* error, which is appended to errs; HandleRoles returns errs.
ScanEnd ==
    /\ hrpc = "loop"
    /\ \/ /\ scanned = Len(lines)
          /\ errs' = errs
       \/ errs' = Append(errs, Err("scanner", scanned))
    /\ hrpc' = "returned"
    /\ UNCHANGED <<roleFile, lines, input, scanned, calls, opened, code>>
    /\ UNCHANGED notHR

\* An Execute that reports success whatever HandleRoles returned.
ExecuteReturn_AlwaysZero ==
    /\ hrpc = "returned"
    /\ code = <<>>
    /\ code' = <<0>>
    /\ UNCHANGED <<roleFile, lines, input, hrpc, scanned, calls, errs, opened>>
    /\ UNCHANGED notHR

\* Execute after HandleRoles has returned: with len(errs) > 0 the errors
\* are printed and Execute returns 1, otherwise it returns 0.
ExecuteReturn ==
    /\ hrpc = "returned"
    /\ code = <<>>
    /\ code' = IF Len(errs) > 0 THEN <<1>> ELSE <<0>>
    /\ UNCHANGED <<roleFile, lines, input, hrpc, scanned, calls, errs, opened>>
    /\ UNCHANGED notHR

(***************************************************************************)
(* The EC2 service, as processSG uses it.                                  *)
(***************************************************************************)
\* The permission myIPDel and myIPAdd send: always TCP, the requested port
\* as FromPort and ToPort, one IpRange with the description.
Perm(port, cidr, desc) ==
    [proto |-> "tcp", port |-> port, cidr |-> cidr, desc |-> desc]

\* RevokeSecurityGroupIngress: the outcomes [err, sg] of revoking perm from
\* g.  The request can fail as any SDK call can.  A rule with perm's key
\* and description is removed.  When no rule has perm's key the service
\* answers InvalidPermission.NotFound (non-default VPC) or answers without
\* error and lists the permission as unknown (default VPC); the code drops
\* the answer.  When the rule with perm's key carries another description
\* the service may remove it or treat the permission as unknown.
RevokeOutcomes(g, perm) ==
    LET hit == {r \in g : Key(r) = Key(perm)}
        same == {r \in hit : r.desc = perm.desc}
    IN  {[err |-> "RequestError", sg |-> g]}
        \cup (IF hit # {} THEN {[err |-> "", sg |-> g \ hit]} ELSE {})
        \cup (IF same = {}
              THEN {[err |-> "", sg |-> g],
                    [err |-> "InvalidPermission.NotFound", sg |-> g]}
              ELSE {})

\* AuthorizeSecurityGroupIngress: the outcomes [err, sg] of adding perm to
\* g.  The request can fail as any SDK call can, and fails with
\* InvalidPermission.Duplicate when a rule with perm's key exists.
AuthorizeOutcomes(g, perm) ==
    {[err |-> "RequestError", sg |-> g]}
    \cup (IF HasKey(g, perm)
          THEN {[err |-> "InvalidPermission.Duplicate", sg |-> g]}
          ELSE {[err |-> "", sg |-> g \cup {perm}]})

\* One mutating call as issued: its name, the permission sent, the error
\* returned ("" for none).
Op(name, perm, err) == [op |-> name, perm |-> perm, err |-> err]

(***************************************************************************)
(* whitelist-self.                                                         *)
(***************************************************************************)
\* Execute, up to the loop over the files: getIP answers with the caller's
\* address and Execute saves it in i.IP.
Execute(p) ==
    /\ pc[p] = "start"
    /\ \E ip \in Cidrs : IP' = [IP EXCEPT ![p] = ip]
    /\ pc' = [pc EXCEPT ![p] = "idle"]
    /\ UNCHANGED <<sg, sg0, egress, cur, prev>>
    /\ UNCHANGED notSG

\* handleSecurityGroup calls processSG for an entry with a name.
handleSecurityGroup(p) ==
    /\ pc[p] = "idle"
    /\ \E desc \in Labels, port \in Ports :
         cur' = [cur EXCEPT ![p] =
                   [desc |-> desc, port |-> port, pre |-> sg, snap |-> {},
                    ops |-> <<>>, result |-> "running", msg |-> <<>>]]
    /\ pc' = [pc EXCEPT ![p] = "describe"]
    /\ UNCHANGED <<sg, sg0, egress, IP, prev>>
    /\ UNCHANGED notSG

\* processSG, the DescribeSecurityGroups call: an error is returned as it
\* is, otherwise the group's rules are held in `current`.
DescribeSecurityGroups(p) ==
    /\ pc[p] = "describe"
    /\ \/ /\ cur' = [cur EXCEPT ![p].result = "describe"]
          /\ pc' = [pc EXCEPT ![p] = "done"]
       \/ /\ cur' = [cur EXCEPT ![p].snap = sg]
          /\ pc' = [pc EXCEPT ![p] = "count"]
    /\ UNCHANGED <<sg, sg0, egress, IP, prev>>
    /\ UNCHANGED notSG

\* A count loop that stops at the first match.
count_AtMostOne(snap, desc) == IF Labelled(snap, desc) = {} THEN 0 ELSE 1

\* A count loop that never finds a match.
count_NoMatch(snap, desc) == 0

\* The count loop: the number of IpRanges whose description is desc.  The
\* loop dereferences every Description, so it panics on a nil one.
count(snap, desc) == Cardinality(Labelled(snap, desc))

Panics(snap) == \E r \in snap : r.desc = NoDesc

\* A myIPAdd that reports success whatever Authorize returned.
myIPAdd_ErrorDropped(p, c) ==
    \E out \in AuthorizeOutcomes(sg, Perm(c.port, IP[p], c.desc)) :
        /\ sg' = out.sg
        /\ cur' = [cur EXCEPT ![p] =
                     [c EXCEPT !.ops = Append(c.ops,
                                   Op("Authorize", Perm(c.port, IP[p], c.desc), out.err)),
                               !.result = "nil"]]
        /\ pc' = [pc EXCEPT ![p] = "done"]

\* myIPAdd: one Authorize call; its error is processSG's result.
myIPAdd(p, c) ==
    \E out \in AuthorizeOutcomes(sg, Perm(c.port, IP[p], c.desc)) :
        /\ sg' = out.sg
        /\ cur' = [cur EXCEPT ![p] =
                     [c EXCEPT !.ops = Append(c.ops,
                                   Op("Authorize", Perm(c.port, IP[p], c.desc), out.err)),
                               !.result = IF out.err # "" THEN "add" ELSE "nil"]]
        /\ pc' = [pc EXCEPT ![p] = "done"]

\* A processSG that goes on to the add whatever myIPDel returned.
myIPDel_ErrorDropped(p, c, ipr) ==
    \E out \in RevokeOutcomes(sg, Perm(c.port, ipr.cidr, c.desc)) :
        /\ sg' = out.sg
        /\ cur' = [cur EXCEPT ![p] =
                     [c EXCEPT !.ops = Append(c.ops,
                                   Op("Revoke", Perm(c.port, ipr.cidr, c.desc), out.err))]]
        /\ pc' = [pc EXCEPT ![p] = "add"]

\* myIPDel: one Revoke call for the CIDR of the range found, with the
\* requested port and the description.
myIPDel(p, c, ipr) ==
    \E out \in RevokeOutcomes(sg, Perm(c.port, ipr.cidr, c.desc)) :
        /\ sg' = out.sg
        /\ cur' = [cur EXCEPT ![p] =
                     [c EXCEPT !.ops = Append(c.ops,
                                   Op("Revoke", Perm(c.port, ipr.cidr, c.desc), out.err)),
                               !.result = IF out.err # "" THEN "remove" ELSE "running"]]
        /\ pc' = [pc EXCEPT ![p] = IF out.err # "" THEN "done" ELSE "add"]

\* processSG after Describe, up to and including its first mutating call.
processSG(p) ==
    /\ pc[p] = "count"
    /\ LET c == cur[p]
           n == count(c.snap, c.desc)
       IN  IF Panics(c.snap)
           THEN /\ cur' = [cur EXCEPT ![p].result = "panic"]
                /\ pc' = [pc EXCEPT ![p] = "done"]
                /\ sg' = sg
           ELSE IF n = 0
           THEN myIPAdd(p, c)
           ELSE IF n > 1
           THEN /\ cur' = [cur EXCEPT ![p].result = "ambiguous",
                                      ![p].msg = <<n, c.desc>>]
                /\ pc' = [pc EXCEPT ![p] = "done"]
                /\ sg' = sg
           ELSE LET ipr == CHOOSE r \in c.snap : r.desc = c.desc
                IN  IF ipr.cidr = IP[p]
                    THEN /\ cur' = [cur EXCEPT ![p].result = "nil"]
                         /\ pc' = [pc EXCEPT ![p] = "done"]
                         /\ sg' = sg
                    ELSE myIPDel(p, c, ipr)
    /\ UNCHANGED <<sg0, egress, IP, prev>>
    /\ UNCHANGED notSG

\* processSG after a Revoke that returned no error: return i.myIPAdd(...).
processSGAdd(p) ==
    /\ pc[p] = "add"
    /\ myIPAdd(p, cur[p])
    /\ UNCHANGED <<sg0, egress, IP, prev>>
    /\ UNCHANGED notSG

\* processSG has returned (or the run has ended in a panic): the caller
\* goes on.
Return(p) ==
    /\ pc[p] = "done"
    /\ prev' = [prev EXCEPT ![p] =
                  [desc |-> cur[p].desc, port |-> cur[p].port, pre |-> cur[p].pre,
                   ops |-> cur[p].ops, result |-> cur[p].result]]
    /\ pc' = [pc EXCEPT ![p] = "idle"]
    /\ UNCHANGED <<sg, sg0, egress, IP, cur>>
    /\ UNCHANGED notSG

(***************************************************************************)
(* Spec: one run of the tool at a time, any number of reconciliations.     *)
(***************************************************************************)
\* HandleRoles is not running.
NoRoles ==
    /\ roleFile = <<>>
    /\ lines = <<>>
    /\ input = <<>>
    /\ hrpc = "off"
    /\ scanned = 0
    /\ calls = <<>>
    /\ errs = <<>>
    /\ opened = FALSE
    /\ code = <<>>

\* No configuration file is being worked through.
NoDriver ==
    /\ args = <<>>
    /\ fileNo = 0
    /\ entryNo = 0
    /\ log = <<>>
    /\ exit = <<>>

\* The egress rules a group can hold: none, or one that carries the label.
EgressGroups ==
    { {},
      {[proto |-> "tcp", port |-> 443, cidr |-> "0.0.0.0/0", desc |-> "home-ssh"]} }

\* rotate-keys is not running.
NoRotate ==
    /\ Force = FALSE
    /\ stdin = <<>>
    /\ iamKeys = <<>>
    /\ listed = <<>>
    /\ credFile = <<>>
    /\ rkpc = "off"
    /\ rkops = <<>>
    /\ rkexit = <<>>

\* orphaned-zones is not running.
NoZones ==
    /\ zones = <<>>
    /\ zoneNo = 0
    /\ valid = <<>>
    /\ orphan = <<>>
    /\ error = <<>>
    /\ shown = <<>>
    /\ zpc = "off"
    /\ zexit = <<>>

\* DisplayStacks has not been called by HandleRoles.
NoClients == cf = <<>>

\* DisplayStacks is not running.
NoStacks ==
    /\ filter = <<>>
    /\ all = FALSE
    /\ status = FALSE
    /\ policy = FALSE
    /\ summaries = {}
    /\ keys = <<>>
    /\ printed = <<>>
    /\ applied = <<>>
    /\ stpc = "off"
    /\ stResult = "none"

Init ==
    /\ sg \in Groups
    /\ sg0 = sg
    /\ egress \in EgressGroups
    /\ IP = [p \in AllProcs |-> ""]
    /\ pc = [p \in AllProcs |-> "start"]
    /\ cur = [p \in AllProcs |-> NoCall]
    /\ prev = [p \in AllProcs |-> NoPrev]
    /\ NoRoles
    /\ NoDriver
    /\ NoRotate
    /\ NoStacks
    /\ NoZones
    /\ NoClients

Next ==
    \/ Execute(1)
    \/ handleSecurityGroup(1)
    \/ DescribeSecurityGroups(1)
    \/ processSG(1)
    \/ processSGAdd(1)
    \/ Return(1)

Spec == Init /\ [][Next]_vars

\* Two runs of the tool at once, one reconciliation each, on the same
\* security group.
RaceInit ==
    /\ sg \in GroupsUpTo(MaxRaceRules)
    /\ sg0 = sg
    /\ egress = {}
    /\ IP = [p \in AllProcs |-> ""]
    /\ pc = [p \in AllProcs |-> "start"]
    /\ cur = [p \in AllProcs |-> NoCall]
    /\ prev = [p \in AllProcs |-> NoPrev]
    /\ NoRoles
    /\ NoDriver
    /\ NoRotate
    /\ NoStacks
    /\ NoZones
    /\ NoClients

RaceNext ==
    \E p \in AllProcs :
        \/ Execute(p)
        \/ /\ cur[p].result = "none"
           /\ handleSecurityGroup(p)
        \/ DescribeSecurityGroups(p)
        \/ processSG(p)
        \/ processSGAdd(p)

SpecRace == RaceInit /\ [][RaceNext]_vars

(***************************************************************************)
(* SpecRoles: one call of HandleRoles.                                     *)
(***************************************************************************)
RoleFileName == <<"r", "o", "l", "e", "s">>

RolesInit ==
    /\ roleFile \in {<<>>, RoleFileName}
    /\ lines \in (IF roleFile = <<>> THEN {<<>>} ELSE Files)
    /\ input \in InputTexts
    /\ hrpc = "start"
    /\ scanned = 0
    /\ calls = <<>>
    /\ errs = <<>>
    /\ opened = FALSE
    /\ code = <<>>
    /\ sg = {}
    /\ sg0 = {}
    /\ egress = {}
    /\ IP = [p \in AllProcs |-> ""]
    /\ pc = [p \in AllProcs |-> "start"]
    /\ cur = [p \in AllProcs |-> NoCall]
    /\ prev = [p \in AllProcs |-> NoPrev]
    /\ NoDriver
    /\ NoRotate
    /\ NoStacks
    /\ NoZones
    /\ NoClients

RolesNext ==
    \/ ExecuteNoSession
    \/ GetCallerIdentity
    \/ RunDefault
    \/ OpenRoleFile
    \/ ScanLine
    \/ ScanEnd
    \/ ExecuteReturn

SpecRoles == RolesInit /\ [][RolesNext]_vars

(***************************************************************************)
(* SpecDriver: one run of whitelist-self over its configuration files.     *)
(* Every entry names the one security group of the model.                  *)
(***************************************************************************)
\* Largest number of configuration files on the command line.
MaxFiles == 2

\* os.ExpandEnv on the names the model's entries use: a reference to a
\* variable that is set is replaced by its value, one to a variable that
\* is not set by the empty string, and other text is kept.
ExpandEnv(name) ==
    CASE name = "$LABEL" -> "home-ssh"
      [] name = "$UNSET" -> ""
      [] OTHER -> name

\* A ToChange as the JSON gives it: Name and Port (0 when the file has no
\* port for the entry).
ToChange(name, port) == [Name |-> name, Port |-> port]

EntryHome == ToChange("home-ssh", 22)
EntryHomeEnv == ToChange("$LABEL", 22)
EntryOther == ToChange("other", 0)
EntryNoName == ToChange("", 22)
EntryUnset == ToChange("$UNSET", 443)

\* A file named on the command line: one that cannot be read, one that is
\* not JSON, or the list of entries it holds.
File(kind, entries) == [kind |-> kind, entries |-> entries]

ConfigFiles ==
    { File("unreadable", <<>>),
      File("malformed", <<>>),
      File("json", <<EntryHome>>),
      File("json", <<EntryNoName, EntryOther>>),
      File("json", <<EntryHome, EntryOther>>),
      File("json", <<EntryUnset, EntryHomeEnv>>) }

RECURSIVE ArgsUpTo(_)
ArgsUpTo(n) ==
    IF n = 0 THEN {<<>>}
    ELSE LET shorter == ArgsUpTo(n - 1)
         IN  shorter \cup {Append(a, f) : a \in {x \in shorter : Len(x) = n - 1},
                                          f \in ConfigFiles}

\* The groups the runs start from: empty, one stale rule with the label,
\* two rules with the label, and a rule with no description.
DriverGroups ==
    { {},
      {[proto |-> "tcp", port |-> 22, cidr |-> "1.2.3.4/32", desc |-> "home-ssh"]},
      {[proto |-> "tcp", port |-> 22, cidr |-> "1.2.3.4/32", desc |-> "home-ssh"],
       [proto |-> "tcp", port |-> 443, cidr |-> "1.2.3.4/32", desc |-> "home-ssh"]},
      {[proto |-> "tcp", port |-> 443, cidr |-> "5.6.7.8/32", desc |-> NoDesc]} }

\* One element of log: the file, the entry (0 for the file itself) and what
\* became of it:
\*   "read", "json", "login"  processRules returned that error for the file
\*   "ignored"                handleSecurityGroup printed IGNORED, returned nil
\*   "nil"                    handleSecurityGroup returned nil after processSG
\*   "error"                  handleSecurityGroup returned processSG's error
\*   "panic"                  processSG panicked
Ev(file, entry, what) == [file |-> file, entry |-> entry, what |-> what]

\* Execute up to its loop: without arguments it prints the usage and
\* returns 1, when getIP fails it returns 1, otherwise it saves the address.
ExecuteStart(p) ==
    /\ pc[p] = "start"
    /\ \/ /\ Len(args) < 1
          /\ exit' = <<1>>
          /\ pc' = [pc EXCEPT ![p] = "exited"]
          /\ IP' = IP
       \/ /\ Len(args) >= 1
          /\ exit' = <<1>>
          /\ pc' = [pc EXCEPT ![p] = "exited"]
          /\ IP' = IP
       \/ /\ Len(args) >= 1
          /\ \E ip \in Cidrs : IP' = [IP EXCEPT ![p] = ip]
          /\ pc' = [pc EXCEPT ![p] = "files"]
          /\ exit' = exit
    /\ UNCHANGED <<sg, sg0, egress, cur, prev, args, fileNo, entryNo, log>>
    /\ UNCHANGED notDR

\* A loop of Execute that stops at the first file processRules fails on.
processRules_Abort(p) ==
    /\ pc[p] = "files"
    /\ fileNo < Len(args)
    /\ fileNo' = fileNo + 1
    /\ entryNo' = 0
    /\ LET f == args[fileNo + 1]
       IN  \/ /\ f.kind = "unreadable"
              /\ log' = Append(log, Ev(fileNo + 1, 0, "read"))
              /\ pc' = [pc EXCEPT ![p] = "exited"]
              /\ exit' = <<1>>
           \/ /\ f.kind = "malformed"
              /\ log' = Append(log, Ev(fileNo + 1, 0, "json"))
              /\ pc' = [pc EXCEPT ![p] = "exited"]
              /\ exit' = <<1>>
           \/ /\ f.kind = "json"
              /\ log' = Append(log, Ev(fileNo + 1, 0, "login"))
              /\ pc' = [pc EXCEPT ![p] = "exited"]
              /\ exit' = <<1>>
           \/ /\ f.kind = "json"
              /\ log' = log
              /\ pc' = [pc EXCEPT ![p] = "entries"]
              /\ exit' = exit
    /\ UNCHANGED <<sg, sg0, egress, IP, cur, prev, args>>
    /\ UNCHANGED notDR

\* Execute passes the next file to processRules, which reads it, parses it
\* and opens a session.  Each of the three can fail: processRules returns
\* the error, Execute prints it and goes on to the next file.
processRules(p) ==
    /\ pc[p] = "files"
    /\ fileNo < Len(args)
    /\ fileNo' = fileNo + 1
    /\ entryNo' = 0
    /\ LET f == args[fileNo + 1]
       IN  \/ /\ f.kind = "unreadable"
              /\ log' = Append(log, Ev(fileNo + 1, 0, "read"))
              /\ pc' = pc
           \/ /\ f.kind = "malformed"
              /\ log' = Append(log, Ev(fileNo + 1, 0, "json"))
              /\ pc' = pc
           \/ /\ f.kind = "json"
              /\ log' = Append(log, Ev(fileNo + 1, 0, "login"))
              /\ pc' = pc
           \/ /\ f.kind = "json"
              /\ log' = log
              /\ pc' = [pc EXCEPT ![p] = "entries"]
    /\ UNCHANGED <<sg, sg0, egress, IP, cur, prev, args, exit>>
    /\ UNCHANGED notDR

\* A handleSecurityGroup that reconciles whatever the name is.
processRulesEntry_NoIgnore(p) ==
    /\ pc[p] = "entries"
    /\ entryNo < Len(args[fileNo].entries)
    /\ entryNo' = entryNo + 1
    /\ LET entry == args[fileNo].entries[entryNo + 1]
           name == ExpandEnv(entry.Name)
           port == IF entry.Port = 0 THEN 443 ELSE entry.Port
       IN  /\ cur' = [cur EXCEPT ![p] =
                        [desc |-> name, port |-> port, pre |-> sg, snap |-> {},
                         ops |-> <<>>, result |-> "running", msg |-> <<>>]]
           /\ pc' = [pc EXCEPT ![p] = "describe"]
           /\ log' = log
    /\ UNCHANGED <<sg, sg0, egress, IP, prev, args, fileNo, exit>>
    /\ UNCHANGED notDR

\* A loop of processRules that takes the entries of the file from the last
\* to the first.
processRulesEntry_Backwards(p) ==
    /\ pc[p] = "entries"
    /\ entryNo < Len(args[fileNo].entries)
    /\ entryNo' = entryNo + 1
    /\ LET entry == args[fileNo].entries[Len(args[fileNo].entries) - entryNo]
           name == ExpandEnv(entry.Name)
           port == IF entry.Port = 0 THEN 443 ELSE entry.Port
       IN  IF name = ""
           THEN /\ log' = Append(log, Ev(fileNo, entryNo + 1, "ignored"))
                /\ UNCHANGED <<pc, cur>>
           ELSE /\ cur' = [cur EXCEPT ![p] =
                             [desc |-> name, port |-> port, pre |-> sg, snap |-> {},
                              ops |-> <<>>, result |-> "running", msg |-> <<>>]]
                /\ pc' = [pc EXCEPT ![p] = "describe"]
                /\ log' = log
    /\ UNCHANGED <<sg, sg0, egress, IP, prev, args, fileNo, exit>>
    /\ UNCHANGED notDR

\* The body of processRules' loop for the next entry: the name is expanded
\* and handleSecurityGroup is called, which takes 443 for a port of 0,
\* prints IGNORED and returns nil for an empty name, and calls processSG
\* otherwise.
processRulesEntry(p) ==
    /\ pc[p] = "entries"
    /\ entryNo < Len(args[fileNo].entries)
    /\ entryNo' = entryNo + 1
    /\ LET entry == args[fileNo].entries[entryNo + 1]
           name == ExpandEnv(entry.Name)
           port == IF entry.Port = 0 THEN 443 ELSE entry.Port
       IN  IF name = ""
           THEN /\ log' = Append(log, Ev(fileNo, entryNo + 1, "ignored"))
                /\ UNCHANGED <<pc, cur>>
           ELSE /\ cur' = [cur EXCEPT ![p] =
                             [desc |-> name, port |-> port, pre |-> sg, snap |-> {},
                              ops |-> <<>>, result |-> "running", msg |-> <<>>]]
                /\ pc' = [pc EXCEPT ![p] = "describe"]
                /\ log' = log
    /\ UNCHANGED <<sg, sg0, egress, IP, prev, args, fileNo, exit>>
    /\ UNCHANGED notDR

\* The exit codes of a run that panicked: main's deferred recoverPanic
\* recovers and main returns (0), unless DEBUG is set and the panic ends
\* the process (2).
PanicExits == {<<0>>, <<2>>}

\* A loop of processRules that goes on to the next entry after an error.
processRulesResult_GoesOn(p) ==
    /\ pc[p] = "done"
    /\ LET r == cur[p].result
       IN  IF r = "nil"
           THEN /\ log' = Append(log, Ev(fileNo, entryNo, "nil"))
                /\ pc' = [pc EXCEPT ![p] = "entries"]
                /\ exit' = exit
           ELSE IF r = "panic"
           THEN /\ log' = Append(log, Ev(fileNo, entryNo, "panic"))
                /\ pc' = [pc EXCEPT ![p] = "exited"]
                /\ exit' \in PanicExits
           ELSE /\ log' = Append(log, Ev(fileNo, entryNo, "error"))
                /\ pc' = [pc EXCEPT ![p] = "entries"]
                /\ exit' = exit
    /\ UNCHANGED <<sg, sg0, egress, IP, cur, prev, args, fileNo, entryNo>>
    /\ UNCHANGED notDR

\* processSG has ended.  On nil the loop of processRules goes on; on an
\* error handleSecurityGroup returns it, processRules returns "error
\* updating ..." and Execute prints it and goes on to the next file; a
\* panic ends the run.
processRulesResult(p) ==
    /\ pc[p] = "done"
    /\ LET r == cur[p].result
       IN  IF r = "nil"
           THEN /\ log' = Append(log, Ev(fileNo, entryNo, "nil"))
                /\ pc' = [pc EXCEPT ![p] = "entries"]
                /\ exit' = exit
           ELSE IF r = "panic"
           THEN /\ log' = Append(log, Ev(fileNo, entryNo, "panic"))
                /\ pc' = [pc EXCEPT ![p] = "exited"]
                /\ exit' \in PanicExits
           ELSE /\ log' = Append(log, Ev(fileNo, entryNo, "error"))
                /\ pc' = [pc EXCEPT ![p] = "files"]
                /\ exit' = exit
    /\ UNCHANGED <<sg, sg0, egress, IP, cur, prev, args, fileNo, entryNo>>
    /\ UNCHANGED notDR

\* processRules has been through every entry and returns nil.
processRulesEnd(p) ==
    /\ pc[p] = "entries"
    /\ entryNo = Len(args[fileNo].entries)
    /\ pc' = [pc EXCEPT ![p] = "files"]
    /\ UNCHANGED <<sg, sg0, egress, IP, cur, prev, args, fileNo, entryNo, log, exit>>
    /\ UNCHANGED notDR

\* Execute has been through every file: return 0.
ExecuteEnd(p) ==
    /\ pc[p] = "files"
    /\ fileNo = Len(args)
    /\ exit' = <<0>>
    /\ pc' = [pc EXCEPT ![p] = "exited"]
    /\ UNCHANGED <<sg, sg0, egress, IP, cur, prev, args, fileNo, entryNo, log>>
    /\ UNCHANGED notDR

DriverInit ==
    /\ sg \in DriverGroups
    /\ sg0 = sg
    /\ egress = {}
    /\ IP = [p \in AllProcs |-> ""]
    /\ pc = [p \in AllProcs |-> "start"]
    /\ cur = [p \in AllProcs |-> NoCall]
    /\ prev = [p \in AllProcs |-> NoPrev]
    /\ NoRoles
    /\ args \in ArgsUpTo(MaxFiles)
    /\ fileNo = 0
    /\ entryNo = 0
    /\ log = <<>>
    /\ exit = <<>>
    /\ NoRotate
    /\ NoStacks
    /\ NoZones
    /\ NoClients

DriverNext ==
    \/ ExecuteStart(1)
    \/ processRules(1)
    \/ processRulesEntry(1)
    \/ DescribeSecurityGroups(1)
    \/ processSG(1)
    \/ processSGAdd(1)
    \/ processRulesResult(1)
    \/ processRulesEnd(1)
    \/ ExecuteEnd(1)

SpecDriver == DriverInit /\ [][DriverNext]_vars

(***************************************************************************)
(* SpecRotate: one run of rotate-keys.                                     *)
(***************************************************************************)
\* The number of access keys IAM lets a user hold.
KeyQuota == 2

KeyOld == "AKIAOLD"
KeyCurrent == "AKIACURRENT"
KeyNew == "AKIANEW"

\* The keys the user can hold when the run begins, oldest first.
KeyLists == {SubSeq(<<KeyOld, KeyCurrent>>, 1, n) : n \in 0..KeyQuota}

\* What the user can leave on standard input.
Newline == <<"\n">>
TextOK == <<"O", "K">>
StdinTexts ==
    { TextOK \o Newline,
      TextOK \o <<"\r">> \o Newline,
      <<" ">> \o TextOK \o <<" ">> \o Newline,
      <<"\t">> \o TextOK \o Newline,
      <<"o", "k">> \o Newline,
      <<"O", " ", "K">> \o Newline,
      <<"n", "o">> \o Newline,
      Newline,
      <<" ">> \o Newline,
      TextOK,
      <<>> }

\* bufio.Reader.ReadString('\n'): the text up to and including the first
\* newline, and whether one was found (without one the call returns what
\* it read and an error).
RECURSIVE ReadString(_)
ReadString(s) ==
    IF s = <<>> THEN [text |-> <<>>, ok |-> FALSE]
    ELSE IF Head(s) = "\n" THEN [text |-> <<"\n">>, ok |-> TRUE]
    ELSE LET rest == ReadString(Tail(s))
         IN  [text |-> <<Head(s)>> \o rest.text, ok |-> rest.ok]

\* strings.TrimSuffix.
TrimSuffix(s, suffix) ==
    IF /\ Len(s) >= Len(suffix)
       /\ SubSeq(s, Len(s) - Len(suffix) + 1, Len(s)) = suffix
    THEN SubSeq(s, 1, Len(s) - Len(suffix))
    ELSE s

\* A confirm that takes anything but an empty line as consent.
confirm_AnyText(text) ==
    LET read == ReadString(text)
        answer == TrimSpace(TrimSuffix(TrimSuffix(read.text, <<"\n">>), <<"\r">>))
    IN  IF ~read.ok THEN "read"
        ELSE IF answer = <<>> THEN "enter"
        ELSE "nil"

\* confirm: "read" (failed to read from STDIN), "enter" (aborting as you
\* hit enter), "other" (aborting as you entered ..., not 'OK') or "nil".
confirm(text) ==
    LET read == ReadString(text)
        answer == TrimSpace(TrimSuffix(TrimSuffix(read.text, <<"\n">>), <<"\r">>))
    IN  IF ~read.ok THEN "read"
        ELSE IF answer = <<>> THEN "enter"
        ELSE IF answer # TextOK THEN "other"
        ELSE "nil"

\* The credentials file: missing, or its lines.  A line is its name (the
\* text it begins with) and the value after it.
Missing == <<"missing">>
CredLine(name, value) == [name |-> name, value |-> value]
CredFiles ==
    { Missing,
      <<CredLine("[default]", ""),
        CredLine("aws_access_key_id", KeyCurrent),
        CredLine("aws_secret_access_key", KeyCurrent)>>,
      <<CredLine("[default]", ""),
        CredLine("aws_access_key_id", KeyCurrent),
        CredLine("aws_secret_access_key", KeyCurrent),
        CredLine("[other]", ""),
        CredLine("aws_access_key_id", KeyOld)>> }

\* The rewrite loop: the first line that begins with aws_access_key_id and
\* the first that begins with aws_secret_access_key get the new values,
\* every other line is copied.
RECURSIVE Rewrite(_, _, _, _)
Rewrite(content, key, awsAccessKeyID, awsSecretAccessKeyID) ==
    IF content = <<>> THEN <<>>
    ELSE LET line == Head(content)
         IN  IF ~awsAccessKeyID /\ line.name = "aws_access_key_id"
             THEN <<CredLine(line.name, key)>>
                  \o Rewrite(Tail(content), key, TRUE, awsSecretAccessKeyID)
             ELSE IF ~awsSecretAccessKeyID /\ line.name = "aws_secret_access_key"
             THEN <<CredLine(line.name, key)>>
                  \o Rewrite(Tail(content), key, awsAccessKeyID, TRUE)
             ELSE <<line>>
                  \o Rewrite(Tail(content), key, awsAccessKeyID, awsSecretAccessKeyID)

\* One change made by Execute: "delete" or "create" with the key, "write"
\* for the truncation of the credentials file.
Change(what, key) == [what |-> what, key |-> key]

\* Execute returns 1.
RotateFails ==
    /\ rkexit' = <<1>>
    /\ rkpc' = "exited"

\* setupPath and utils.NewSession: either can fail.
RotateStart ==
    /\ rkpc = "start"
    /\ \/ RotateFails
       \/ /\ rkpc' = "list"
          /\ rkexit' = rkexit
    /\ UNCHANGED <<Force, stdin, iamKeys, listed, credFile, rkops>>
    /\ UNCHANGED notRK

\* ListAccessKeys, and the test on the number of keys.
ListAccessKeys ==
    /\ rkpc = "list"
    /\ \/ /\ RotateFails
          /\ listed' = listed
       \/ /\ listed' = iamKeys
          /\ rkpc' = IF Len(iamKeys) > 1
                     THEN (IF ~Force THEN "confirm" ELSE "delete")
                     ELSE "open"
          /\ rkexit' = rkexit
    /\ UNCHANGED <<Force, stdin, iamKeys, credFile, rkops>>
    /\ UNCHANGED notRK

\* The prompt: Execute goes on only when confirm returns nil.
ConfirmPrompt ==
    /\ rkpc = "confirm"
    /\ IF confirm(stdin) # "nil"
       THEN RotateFails
       ELSE /\ rkpc' = "delete"
            /\ rkexit' = rkexit
    /\ UNCHANGED <<Force, stdin, iamKeys, listed, credFile, rkops>>
    /\ UNCHANGED notRK

\* DeleteAccessKey of keys.AccessKeyMetadata[0].
DeleteAccessKey ==
    /\ rkpc = "delete"
    /\ \/ /\ RotateFails
          /\ UNCHANGED <<iamKeys, rkops>>
       \/ /\ iamKeys' = SelectSeq(iamKeys, LAMBDA k : k # listed[1])
          /\ rkops' = Append(rkops, Change("delete", listed[1]))
          /\ rkpc' = "open"
          /\ rkexit' = rkexit
    /\ UNCHANGED <<Force, stdin, listed, credFile>>
    /\ UNCHANGED notRK

\* An Execute that goes on to create the key when the file cannot be opened.
OpenCredentials_GoesOn ==
    /\ rkpc = "open"
    /\ rkpc' = "create"
    /\ rkexit' = rkexit
    /\ UNCHANGED <<Force, stdin, iamKeys, listed, credFile, rkops>>
    /\ UNCHANGED notRK

\* os.Open of the credentials file.
OpenCredentials ==
    /\ rkpc = "open"
    /\ \/ RotateFails
       \/ /\ credFile # Missing
          /\ rkpc' = "create"
          /\ rkexit' = rkexit
    /\ UNCHANGED <<Force, stdin, iamKeys, listed, credFile, rkops>>
    /\ UNCHANGED notRK

\* CreateAccessKey.
CreateAccessKey ==
    /\ rkpc = "create"
    /\ \/ /\ RotateFails
          /\ UNCHANGED <<iamKeys, rkops>>
       \/ /\ Len(iamKeys) < KeyQuota
          /\ iamKeys' = Append(iamKeys, KeyNew)
          /\ rkops' = Append(rkops, Change("create", KeyNew))
          /\ rkpc' = "scan"
          /\ rkexit' = rkexit
    /\ UNCHANGED <<Force, stdin, listed, credFile>>
    /\ UNCHANGED notRK

\* The scanner over the old file: a read error ends Execute.
ScanCredentials ==
    /\ rkpc = "scan"
    /\ \/ RotateFails
       \/ /\ rkpc' = "rewrite"
          /\ rkexit' = rkexit
    /\ UNCHANGED <<Force, stdin, iamKeys, listed, credFile, rkops>>
    /\ UNCHANGED notRK

\* os.Create and the rewrite loop.  Create can fail, leaving the file as
\* it is; after it a write can fail, leaving the lines written so far.
RewriteCredentials ==
    /\ rkpc = "rewrite"
    /\ LET new == Rewrite(credFile, KeyNew, FALSE, FALSE)
       IN  \/ /\ RotateFails
              /\ UNCHANGED <<credFile, rkops>>
           \/ /\ RotateFails
              /\ \E n \in 0..(Len(new) - 1) : credFile' = SubSeq(new, 1, n)
              /\ rkops' = Append(rkops, Change("write", KeyNew))
           \/ /\ credFile' = new
              /\ rkops' = Append(rkops, Change("write", KeyNew))
              /\ rkexit' = <<0>>
              /\ rkpc' = "exited"
    /\ UNCHANGED <<Force, stdin, iamKeys, listed>>
    /\ UNCHANGED notRK

RotateInit ==
    /\ Force \in BOOLEAN
    /\ stdin \in StdinTexts
    /\ iamKeys \in KeyLists
    /\ listed = <<>>
    /\ credFile \in CredFiles
    /\ rkpc = "start"
    /\ rkops = <<>>
    /\ rkexit = <<>>
    /\ sg = {}
    /\ sg0 = {}
    /\ egress = {}
    /\ IP = [p \in AllProcs |-> ""]
    /\ pc = [p \in AllProcs |-> "start"]
    /\ cur = [p \in AllProcs |-> NoCall]
    /\ prev = [p \in AllProcs |-> NoPrev]
    /\ NoRoles
    /\ NoDriver
    /\ NoStacks
    /\ NoZones
    /\ NoClients

RotateNext ==
    \/ RotateStart
    \/ ListAccessKeys
    \/ ConfirmPrompt
    \/ DeleteAccessKey
    \/ OpenCredentials
    \/ CreateAccessKey
    \/ ScanCredentials
    \/ RewriteCredentials

SpecRotate == RotateInit /\ [][RotateNext]_vars

(***************************************************************************)
(* SpecStacks: one call of stacksCommand.DisplayStacks.                    *)
(***************************************************************************)
\* Largest number of stack summaries ListStacks returns.
MaxStacks == 2

NameProd == <<"p", "r", "o", "d">>
NameDev == <<"d", "e", "v">>
NamePreprod == <<"p", "r", "e", "p", "r", "o", "d">>
StackNames == {NameProd, NameDev, NamePreprod}

\* Stack statuses, and strings.Contains(state, "DELETE").
StackStatuses == {"CREATE_COMPLETE", "DELETE_COMPLETE"}
ContainsDELETE(state) == state \in {"DELETE_COMPLETE", "DELETE_IN_PROGRESS", "DELETE_FAILED"}

StackSummaries == [name : StackNames, status : StackStatuses]

\* The values of -filter: none, a literal, literals anchored at either
\* end, and text that is not a regular expression.
NoFilter == <<>>
Filters ==
    { NoFilter,
      NameProd,
      <<"^">> \o NameProd,
      NameDev \o <<"$">>,
      <<"(">> }

\* regexp.MatchString for patterns made of letters, ^ in front and $ at the
\* end: whether the pattern compiles, and whether it is found in key.
Compiles(pattern) == \A k \in 1..Len(pattern) : pattern[k] # "("

MatchString(pattern, key) ==
    LET atStart == Len(pattern) > 0 /\ pattern[1] = "^"
        atEnd == Len(pattern) > 0 /\ pattern[Len(pattern)] = "$"
        lit == SubSeq(pattern, IF atStart THEN 2 ELSE 1,
                      IF atEnd THEN Len(pattern) - 1 ELSE Len(pattern))
    IN  \E k \in 1..(Len(key) - Len(lit) + 1) :
            /\ SubSeq(key, k, k + Len(lit) - 1) = lit
            /\ atStart => k = 1
            /\ atEnd => k + Len(lit) - 1 = Len(key)

\* sort.Strings: the order of the bytes of the letters used.
Alphabet == <<"d", "e", "o", "p", "r", "v">>
Rank(c) == CHOOSE k \in 1..Len(Alphabet) : Alphabet[k] = c

RECURSIVE Less(_, _)
Less(a, b) ==
    IF a = <<>> THEN b # <<>>
    ELSE IF b = <<>> THEN FALSE
    ELSE IF Head(a) # Head(b) THEN Rank(Head(a)) < Rank(Head(b))
    ELSE Less(Tail(a), Tail(b))

RECURSIVE Sorted(_)
Sorted(names) ==
    IF names = {} THEN <<>>
    ELSE LET least == CHOOSE n \in names : \A m \in names \ {n} : Less(n, m)
         IN  <<least>> \o Sorted(names \ {least})

\* lookup[key]: the statuses listed for the name.
lookup(key) == {e.status : e \in {x \in summaries : x.name = key}}

\* One line of output: the name and, with -status, its statuses.
Line(key) == [name |-> key, status |-> IF status THEN lookup(key) ELSE {}]

\* cf.ListStacks, the lookup table and the sorted list of names.
ListStacks ==
    /\ stpc = "start"
    /\ \/ /\ stResult' = "list"
          /\ stpc' = "returned"
          /\ keys' = keys
       \/ /\ keys' = Sorted({e.name : e \in summaries})
          /\ stpc' = "loop"
          /\ stResult' = stResult
    /\ UNCHANGED <<filter, all, status, policy, summaries, printed, applied>>
    /\ UNCHANGED notST

\* One pass of the loop over the sorted names: show is set when a status
\* of the stack is not a DELETE one, and cleared when the name does not
\* match the filter; the name is skipped when neither -all nor show holds;
\* otherwise it is printed and, with a policy, SetStackPolicy is called,
\* whose error ends DisplayStacks.
DisplayStack ==
    /\ stpc = "loop"
    /\ keys # <<>>
    /\ keys' = Tail(keys)
    /\ LET key == Head(keys)
           live == \E state \in lookup(key) : ~ContainsDELETE(state)
           show == IF filter # NoFilter /\ ~MatchString(filter, key)
                   THEN FALSE ELSE live
       IN  IF filter # NoFilter /\ ~Compiles(filter)
           THEN /\ stResult' = "regexp"
                /\ stpc' = "returned"
                /\ UNCHANGED <<printed, applied>>
           ELSE IF ~all /\ ~show
           THEN UNCHANGED <<printed, applied, stpc, stResult>>
           ELSE /\ printed' = Append(printed, Line(key))
                /\ IF ~policy
                   THEN UNCHANGED <<applied, stpc, stResult>>
                   ELSE /\ applied' = Append(applied, key)
                        /\ \/ /\ stResult' = "policy"
                              /\ stpc' = "returned"
                           \/ UNCHANGED <<stpc, stResult>>
    /\ UNCHANGED <<filter, all, status, policy, summaries>>
    /\ UNCHANGED notST

\* The loop is over: return nil.
DisplayEnd ==
    /\ stpc = "loop"
    /\ keys = <<>>
    /\ stResult' = "nil"
    /\ stpc' = "returned"
    /\ UNCHANGED <<filter, all, status, policy, summaries, keys, printed, applied>>
    /\ UNCHANGED notST

StacksInit ==
    /\ filter \in Filters
    /\ all \in BOOLEAN
    /\ status \in BOOLEAN
    /\ policy \in BOOLEAN
    /\ summaries \in {x \in SUBSET StackSummaries : Cardinality(x) <= MaxStacks}
    /\ keys = <<>>
    /\ printed = <<>>
    /\ applied = <<>>
    /\ stpc = "start"
    /\ stResult = "none"
    /\ sg = {}
    /\ sg0 = {}
    /\ egress = {}
    /\ IP = [p \in AllProcs |-> ""]
    /\ pc = [p \in AllProcs |-> "start"]
    /\ cur = [p \in AllProcs |-> NoCall]
    /\ prev = [p \in AllProcs |-> NoPrev]
    /\ NoRoles
    /\ NoDriver
    /\ NoRotate
    /\ NoZones
    /\ NoClients

StacksNext ==
    \/ ListStacks
    \/ DisplayStack
    \/ DisplayEnd

SpecStacks == StacksInit /\ [][StacksNext]_vars

(***************************************************************************)
(* SpecZones: one run of orphaned-zones.                                   *)
(***************************************************************************)
\* Largest number of hosted zones ListHostedZones returns.
MaxZones == 2

\* The names of the hosted zones.
ZoneNames == {NameDev, NameProd, NamePreprod}

\* Nameserver hosts: "ns.awsdns.co", "e.awsdns.org", "ns.cf.com" and
\* "aw.as.ws" (the letters of "aws", never in a row).
HostAws == <<"n", "s", ".", "a", "w", "s", "d", "n", "s", ".", "c", "o">>
HostAwsToo == <<"e", ".", "a", "w", "s", "d", "n", "s", ".", "o", "r", "g">>
HostOut == <<"n", "s", ".", "c", "f", ".", "c", "o", "m">>
HostAwAs == <<"a", "w", ".", "a", "s", ".", "w", "s">>

\* What net.LookupNS answers for a zone: an error, or the records.
Answer(err, ns) == [err |-> err, ns |-> ns]
Answers ==
    { Answer(TRUE, <<>>),
      Answer(FALSE, <<HostAws>>),
      Answer(FALSE, <<HostOut>>),
      Answer(FALSE, <<HostAwAs>>),
      Answer(FALSE, <<HostAws, HostAwsToo>>),
      Answer(FALSE, <<HostAws, HostOut>>),
      Answer(FALSE, <<HostOut, HostAws>>),
      Answer(FALSE, <<HostOut, HostAwAs>>) }

\* One hosted zone: *entry.Name and the answer to its lookup.
Zone(name, answer) == [name |-> name, answer |-> answer]

\* The lists of zones ListHostedZones can return.
RECURSIVE ZonesUpTo(_)
ZonesUpTo(n) ==
    IF n = 0 THEN {<<>>}
    ELSE LET shorter == ZonesUpTo(n - 1)
         IN  shorter \cup
             {Append(z, Zone(name, answer)) :
                 z \in {x \in shorter : Len(x) = n - 1},
                 name \in ZoneNames, answer \in Answers}

\* fmt.Sprintf("%s", ns) for ns of type *net.NS: the pointer to the struct
\* is printed as &{Host}.
Sprintf(host) == <<"&", "{">> \o host \o <<"}">>

\* strings.Contains.
Contains(s, substr) ==
    \E k \in 1..(Len(s) - Len(substr) + 1) :
        SubSeq(s, k, k + Len(substr) - 1) = substr

\* The loop over the nameservers: aws starts true and is set to false by
\* every record whose text does not contain "aws".
RECURSIVE aws(_)
aws(nameserver) ==
    IF nameserver = <<>> THEN TRUE
    ELSE LET n == Sprintf(Head(nameserver))
         IN  (IF ~Contains(n, Aws) THEN FALSE ELSE TRUE) /\ aws(Tail(nameserver))

\* sort.Strings on a list.
RECURSIVE SortStrings(_)
SortStrings(l) ==
    IF l = <<>> THEN <<>>
    ELSE LET k == CHOOSE i \in 1..Len(l) : \A j \in 1..Len(l) : ~Less(l[j], l[i])
         IN  <<l[k]>> \o SortStrings(SubSeq(l, 1, k - 1) \o SubSeq(l, k + 1, Len(l)))

\* One line of output: "VALID", "ORPHAN" or "ERROR", and the name.
Shown(what, name) == [what |-> what, name |-> name]

\* Execute up to its loop: utils.NewSession or ListHostedZones can fail,
\* and Execute returns 1.
ListHostedZones ==
    /\ zpc = "start"
    /\ \/ /\ zexit' = <<1>>
          /\ zpc' = "exited"
       \/ /\ zpc' = "loop"
          /\ zexit' = zexit
    /\ UNCHANGED <<zones, zoneNo, valid, orphan, error, shown>>
    /\ UNCHANGED notZN

\* The body of the loop for the next zone: the lookup, and the list the
\* name is appended to.
LookupNS ==
    /\ zpc = "loop"
    /\ zoneNo < Len(zones)
    /\ zoneNo' = zoneNo + 1
    /\ LET entry == zones[zoneNo + 1]
       IN  IF entry.answer.err
           THEN /\ error' = Append(error, entry.name)
                /\ UNCHANGED <<valid, orphan>>
           ELSE IF aws(entry.answer.ns)
           THEN /\ valid' = Append(valid, entry.name)
                /\ UNCHANGED <<orphan, error>>
           ELSE /\ orphan' = Append(orphan, entry.name)
                /\ UNCHANGED <<valid, error>>
    /\ UNCHANGED <<zones, shown, zpc, zexit>>
    /\ UNCHANGED notZN

\* After the loop: the three lists are sorted and printed, and Execute
\* returns 0.
ShowResults ==
    /\ zpc = "loop"
    /\ zoneNo = Len(zones)
    /\ valid' = SortStrings(valid)
    /\ orphan' = SortStrings(orphan)
    /\ error' = SortStrings(error)
    /\ shown' = [k \in 1..Len(valid) |-> Shown("VALID", valid'[k])]
                \o [k \in 1..Len(orphan) |-> Shown("ORPHAN", orphan'[k])]
                \o [k \in 1..Len(error) |-> Shown("ERROR", error'[k])]
    /\ zexit' = <<0>>
    /\ zpc' = "exited"
    /\ UNCHANGED <<zones, zoneNo>>
    /\ UNCHANGED notZN

ZonesInit ==
    /\ zones \in {z \in ZonesUpTo(MaxZones) :
                     \A j, k \in 1..Len(z) : j # k => z[j].name # z[k].name}
    /\ zoneNo = 0
    /\ valid = <<>>
    /\ orphan = <<>>
    /\ error = <<>>
    /\ shown = <<>>
    /\ zpc = "start"
    /\ zexit = <<>>
    /\ sg = {}
    /\ sg0 = {}
    /\ egress = {}
    /\ IP = [p \in AllProcs |-> ""]
    /\ pc = [p \in AllProcs |-> "start"]
    /\ cur = [p \in AllProcs |-> NoCall]
    /\ prev = [p \in AllProcs |-> NoPrev]
    /\ NoRoles
    /\ NoDriver
    /\ NoRotate
    /\ NoStacks
    /\ NoClients

ZonesNext ==
    \/ ListHostedZones
    \/ LookupNS
    \/ ShowResults

SpecZones == ZonesInit /\ [][ZonesNext]_vars

(***************************************************************************)
(* SpecStackRoles: one run of stacks, whose Execute passes DisplayStacks   *)
(* to HandleRoles as the callback.                                         *)
(***************************************************************************)
\* One CloudFormation client of DisplayStacks: the credentials of the EC2
\* client it was passed (svc) and the account it was passed, the line being
\* processed, the credentials of the session it built the client from
\* (sess) and the account whose stacks that client lists and updates
\* (owner).
Client(svc, account, line, sess, owner) ==
    [svc |-> svc, account |-> account, line |-> line, sess |-> sess,
     owner |-> owner]

\* The credentials of the user, as the default chain finds them.
BaseCredentials == <<"base">>

\* The session DisplayStacks sets up and its client: svc is not used; the
\* session is a new one with the shared configuration enabled, which holds
\* the credentials of the user, whose account is the one the
\* identity lookup gave.
NewSessionWithOptions(svc, account, line) ==
    Client(svc, account, line, BaseCredentials, DefaultAccount)

\* HandleRoles without a role file, with DisplayStacks as the callback.
\* session.Must panics when the session cannot be set up; ListStacks, the
\* filter or SetStackPolicy can fail and the error is returned; otherwise
\* DisplayStacks returns nil.
DisplayStacksDefault ==
    /\ hrpc = "identified"
    /\ roleFile = <<>>
    /\ \E outcome \in {"panic", "error", "nil"} :
         IF outcome = "panic"
         THEN /\ hrpc' = "panicked"
              /\ UNCHANGED <<calls, errs, cf>>
         ELSE /\ calls' = Append(calls, Call(DefaultAccount, "base", 0, outcome = "nil"))
              /\ cf' = Append(cf, NewSessionWithOptions(BaseCredentials, DefaultAccount, 0))
              /\ errs' = IF outcome = "nil" THEN errs
                         ELSE Append(errs, Err("callback", 0))
              /\ hrpc' = "returned"
    /\ UNCHANGED <<roleFile, lines, input, scanned, opened, code>>
    /\ UNCHANGED notCF

\* One pass of the loop of HandleRoles, with DisplayStacks as the callback.
DisplayStacksRole ==
    /\ hrpc = "loop"
    /\ scanned < Len(lines)
    /\ scanned' = scanned + 1
    /\ LET role == TrimSpace(TrimArgument(lines[scanned + 1]))
           data == Split(role)
       IN  IF HasPrefix(role, Hash)
           THEN UNCHANGED <<hrpc, calls, errs, cf>>
           ELSE IF ~HasPrefix(role, Arn \o Colon) /\ ~HasPrefix(role, ArnUpper \o Colon)
           THEN UNCHANGED <<hrpc, calls, errs, cf>>
           ELSE IF Len(data) < 5
           THEN /\ hrpc' = "panicked"
                /\ UNCHANGED <<calls, errs, cf>>
           ELSE \E outcome \in {"panic", "error", "nil"} :
                  IF outcome = "panic"
                  THEN /\ hrpc' = "panicked"
                       /\ UNCHANGED <<calls, errs, cf>>
                  ELSE /\ calls' = Append(calls, Call(data[5], role, scanned + 1,
                                                       outcome = "nil"))
                       /\ cf' = Append(cf, NewSessionWithOptions(role, data[5],
                                                                 scanned + 1))
                       /\ errs' = IF outcome = "nil" THEN errs
                                  ELSE Append(errs, Err("callback", scanned + 1))
                       /\ hrpc' = hrpc
    /\ UNCHANGED <<roleFile, lines, input, opened, code>>
    /\ UNCHANGED notCF

StackRolesNext ==
    \/ ExecuteNoSession
    \/ GetCallerIdentity
    \/ DisplayStacksDefault
    \/ OpenRoleFile
    \/ DisplayStacksRole
    \/ ScanEnd
    \/ ExecuteReturn

SpecStackRoles == RolesInit /\ [][StackRolesNext]_vars

(***************************************************************************)
(* Properties of processSG.                                                *)
(***************************************************************************)
\* The call of run 1 has ended (returned, or panicked).
Ended == pc[1] = "done"

\* The number of rules of g that carry desc.
N(g, desc) == Cardinality(Labelled(g, desc))

RequestErrorIn(ops) == \E i \in 1..Len(ops) : ops[i].err = "RequestError"

\* prev[1] and cur[1] are two successive calls with the same group, label,
\* port and address (i.IP does not change within a run), the first one
\* starting from a group with no rule carrying the label.
TwoCallsFromNone ==
    /\ Ended
    /\ prev[1].result # "none"
    /\ prev[1].desc = cur[1].desc
    /\ prev[1].port = cur[1].port
    /\ Labelled(prev[1].pre, prev[1].desc) = {}

CexC3 ==
    (/\ Ended
     /\ cur[1].result # "describe"
     /\ N(cur[1].pre, cur[1].desc) >= 2)
    => /\ cur[1].result = "ambiguous"
       /\ cur[1].msg = <<N(cur[1].pre, cur[1].desc), cur[1].desc>>
       /\ cur[1].ops = <<>>
       /\ sg = cur[1].pre

\* The group held exactly one rule carrying the label when the call of run
\* 1 began, with a CIDR other than i.IP.
OneStale ==
    /\ pc[1] \notin {"start", "idle"}
    /\ N(cur[1].pre, cur[1].desc) = 1
    /\ \A r \in Labelled(cur[1].pre, cur[1].desc) : r.cidr # IP[1]

\* C4: in a call that began with exactly one rule carrying the label, with
\* source A other than the desired B, the first mutating call, if any, is
\* the Revoke of (TCP, port, A, label); an Authorize is issued only after
\* that Revoke returned without error, and is the Authorize of (TCP, port,
\* B, label); after a failed Revoke no Authorize follows and the call
\* returns the removal error; a call that returns nil has issued both.
ThmC4 ==
    OneStale =>
      LET c == cur[1]
          A == (CHOOSE r \in Labelled(c.pre, c.desc) : TRUE).cidr
      IN  /\ Len(c.ops) <= 2
          /\ Len(c.ops) >= 1 =>
               /\ c.ops[1].op = "Revoke"
               /\ c.ops[1].perm = Perm(c.port, A, c.desc)
          /\ Len(c.ops) = 2 =>
               /\ c.ops[1].err = ""
               /\ c.ops[2].op = "Authorize"
               /\ c.ops[2].perm = Perm(c.port, IP[1], c.desc)
          /\ (Len(c.ops) >= 1 /\ c.ops[1].err # "") =>
               /\ Len(c.ops) = 1
               /\ c.result = "remove"
               /\ pc[1] = "done"
          /\ (Ended /\ c.result = "nil") => Len(c.ops) = 2

\* A replace that went through: Revoke, then Authorize, both without error.
WitC4 ==
    /\ OneStale
    /\ Ended
    /\ cur[1].result = "nil"
    /\ Len(cur[1].ops) = 2
    /\ cur[1].ops[1].op = "Revoke"
    /\ cur[1].ops[2].op = "Authorize"

\* C5 as stated: when processSG returns nil, exactly one rule of the group
\* carries the label, and its CIDR is i.IP.
CexC5 ==
    (Ended /\ cur[1].result = "nil")
    => /\ N(sg, cur[1].desc) = 1
       /\ \A r \in Labelled(sg, cur[1].desc) : r.cidr = IP[1]

\* C6 as stated, for the groups that held at most one rule carrying the
\* label when the pass began: when the pass ends, whatever its outcome, at
\* most one rule of the group carries the label.
CexC6 ==
    (Ended /\ N(cur[1].pre, cur[1].desc) <= 1) => N(sg, cur[1].desc) <= 1

\* C7 as stated, for a group that held no rule carrying the label to begin
\* with and two runs that ask for the same port: when both runs have ended
\* their reconciliation, at most one rule of the group carries the label.
CexC7 ==
    (/\ pc[1] = "done" /\ pc[2] = "done"
     /\ cur[1].desc = cur[2].desc
     /\ cur[1].port = cur[2].port
     /\ Labelled(sg0, cur[1].desc) = {})
    => N(sg, cur[1].desc) <= 1

(***************************************************************************)
(* Properties of HandleRoles.                                              *)
(***************************************************************************)
\* HandleRoles has returned after reading the whole role file: the
\* identity lookup and the Open succeeded and the scanner met no read error.
ReadWholeFile ==
    /\ hrpc = "returned"
    /\ roleFile # <<>>
    /\ \A i \in 1..Len(errs) : errs[i].kind = "callback"

\* The errors a sequence of invocations leaves in errs: one per failed
\* invocation, in order.
RECURSIVE CallbackErrors(_)
CallbackErrors(cs) ==
    IF cs = <<>> THEN <<>>
    ELSE (IF Head(cs).ok THEN <<>> ELSE <<Err("callback", Head(cs).line)>>)
         \o CallbackErrors(Tail(cs))

\* C1 as stated: for a role file of N well-formed role lines, the callback
\* is invoked for all N entries, whichever of them fail, and errs holds
\* exactly the errors of the failed entries, in file order (two errors, of
\* entry i and then of entry j, when entries i < j fail).
CexC1 ==
    (/\ ReadWholeFile
     /\ \A k \in 1..Len(lines) : lines[k] \in {LineAlpha, LineBeta})
    => /\ Len(calls) = Len(lines)
       /\ \A k \in 1..Len(calls) : calls[k].line = k
       /\ errs = CallbackErrors(calls)

\* A line C8 says is not passed on: empty, a comment, or without the
\* role-ARN prefix.
Skipped(l) ==
    \/ l = <<>>
    \/ HasPrefix(l, Hash)
    \/ ~(HasPrefix(l, Arn \o Colon) \/ HasPrefix(l, ArnUpper \o Colon))

\* The invocations C8 asks for, for the lines from k on: one per line that
\* is not skipped, with the line's 5th colon-delimited field.
RECURSIVE Expected(_, _)
Expected(ls, k) ==
    IF k > Len(ls) THEN <<>>
    ELSE (IF Skipped(ls[k]) THEN <<>> ELSE <<<<Split(ls[k])[5], k>>>>)
         \o Expected(ls, k + 1)

\* C8 as stated, for role files whose lines carry no surrounding white
\* space and whose role lines have their five fields: the invocations are
\* those of the lines that are not skipped, in file order, each with the
\* 5th field of its line as the account; the scenario's file gives
\* 111122223333 and then 444455556666.
CexC8 ==
    (/\ ReadWholeFile
     /\ \A k \in 1..Len(lines) : lines[k] \notin {LineIndented, LineShort})
    => /\ [k \in 1..Len(calls) |-> <<calls[k].account, calls[k].line>>]
            = Expected(lines, 1)
       /\ lines = ScenarioFile
            => [k \in 1..Len(calls) |-> calls[k].account] = <<Account1, Account2>>

\* C9: when HandleRoles is called with roleFile "" and the identity lookup
\* succeeds, it returns after exactly one invocation of the callback, with
\* a client of the base session and the account of the identity lookup;
\* errs is empty if the callback returned nil and holds the one callback
\* error if it did not.
ThmC9 ==
    (/\ hrpc = "returned"
     /\ roleFile = <<>>
     /\ ~(errs # <<>> /\ errs[1].kind = "identity"))
    => /\ Len(calls) = 1
       /\ calls[1].account = DefaultAccount
       /\ calls[1].creds = "base"
       /\ calls[1].ok => errs = <<>>
       /\ ~calls[1].ok => errs = <<Err("callback", 0)>>

WitC9 ==
    /\ hrpc = "returned"
    /\ roleFile = <<>>
    /\ Len(calls) = 1
    /\ ~calls[1].ok
    /\ Len(errs) = 1

\* C10: once os.Open has failed, HandleRoles has returned exactly one
\* error, the one of the Open; no line was scanned and the callback was not
\* invoked.
ThmC10 ==
    (\E i \in 1..Len(errs) : errs[i].kind = "open")
    => /\ hrpc = "returned"
       /\ errs = <<Err("open", 0)>>
       /\ scanned = 0
       /\ calls = <<>>

WitC10 ==
    /\ hrpc = "returned"
    /\ roleFile # <<>>
    /\ errs = <<Err("open", 0)>>
    /\ Len(lines) >= 2

(***************************************************************************)
(* C11: if the caller-identity lookup fails, HandleRoles returns exactly   *)
(* one error, never opens the role file and never invokes the callback,    *)
(* whether or not a role file was given.                                   *)
(***************************************************************************)
IdentityFailed == \E k \in 1..Len(errs) : errs[k].kind = "identity"

ThmC11 ==
    IdentityFailed =>
        /\ hrpc = "returned"
        /\ errs = <<Err("identity", 0)>>
        /\ ~opened
        /\ scanned = 0
        /\ calls = <<>>

\* The lookup has failed in a call that was given a role file with roles.
WitC11 ==
    /\ IdentityFailed
    /\ hrpc = "returned"
    /\ roleFile # <<>>
    /\ lines = ScenarioFile

(***************************************************************************)
(* C15: Execute of a sub-command that uses HandleRoles returns 0 exactly   *)
(* when HandleRoles returned an empty error list, and 1 when the list is   *)
(* not empty, the unreadable role file and the failed identity lookup      *)
(* included.                                                               *)
(***************************************************************************)
ThmC15 ==
    /\ code \in {<<>>, <<0>>, <<1>>}
    /\ code = <<0>> <=> (code # <<>> /\ hrpc = "returned" /\ errs = <<>>)
    /\ (code # <<>> /\ hrpc = "returned" /\ errs # <<>>) => code = <<1>>

\* Execute has returned after HandleRoles failed to open the role file.
WitC15 ==
    /\ code = <<1>>
    /\ hrpc = "returned"
    /\ errs = <<Err("open", 0)>>

(***************************************************************************)
(* C16: a call that finds no rule carrying the label (its Describe call    *)
(* having succeeded) issues exactly one Authorize, for TCP, the requested  *)
(* port as from-port and to-port, the desired CIDR and the label, and no   *)
(* Revoke.                                                                 *)
(***************************************************************************)
CexC16 ==
    (/\ Ended
     /\ cur[1].result # "describe"
     /\ N(cur[1].pre, cur[1].desc) = 0)
    => /\ Len(cur[1].ops) = 1
       /\ cur[1].ops[1].op = "Authorize"
       /\ cur[1].ops[1].perm = Perm(cur[1].port, IP[1], cur[1].desc)

(***************************************************************************)
(* C17: for every call of processSG, whatever its outcome, the egress      *)
(* rules of the group and every ingress rule whose description differs     *)
(* from the label are the same after the call as before it.                *)
(***************************************************************************)
Others(g, desc) == g \ Labelled(g, desc)

\* Every step of a call leaves the egress rules and the ingress rules
\* with another description as they are.
CexC17 ==
    [][/\ egress' = egress
       /\ Others(sg', cur'[1].desc) = Others(sg, cur'[1].desc)]_vars

(***************************************************************************)
(* The whitelist-self driver.                                              *)
(***************************************************************************)
\* Execute is done with file f: it has passed a later file to processRules
\* or is between two files or has ended.
FileLeft(f) == fileNo > f \/ pc[1] \in {"files", "exited"}

\* The log has an event for entry e of file f after position k.
AttemptedAfter(k, f, e) ==
    \E j \in (k + 1)..Len(log) : log[j].file = f /\ log[j].entry = e

\* The log has an event for file f after position k.  Every file of
\* ConfigFiles leaves one: what it failed with or what became of its
\* first entry.
FileTakenAfter(k, f) == \E j \in (k + 1)..Len(log) : log[j].file = f

CexC13 ==
    exit = <<0>> => \A k \in 1..Len(log) : log[k].what # "error"

(***************************************************************************)
(* C14, as stated: when one of the configuration files cannot be parsed,   *)
(* the whole invocation aborts at once with a non-zero exit code and no    *)
(* later file is processed.                                                *)
(***************************************************************************)
CexC14 ==
    \A k \in 1..Len(log) :
        log[k].what = "json" =>
            /\ fileNo = log[k].file
            /\ exit # <<>> => exit # <<0>>

(***************************************************************************)
(* C14, amended: when one of the configuration files cannot be parsed, no  *)
(* entry of that file is reconciled, the error is reported, and Execute    *)
(* goes on to the file named next on the command line; the invocation is   *)
(* not aborted.                                                            *)
(***************************************************************************)
ThmC14 ==
    \A k \in 1..Len(log) :
        log[k].what = "json" =>
            /\ \A j \in 1..Len(log) : j # k => log[j].file # log[k].file
            /\ \A j \in (k + 1)..Len(log) : log[j].file > log[k].file
            /\ (exit # <<>> /\ log[k].file < Len(args)) =>
                   FileTakenAfter(k, log[k].file + 1)

\* The first file could not be parsed and an entry of the second has been
\* reconciled.
WitC14 ==
    /\ Len(log) >= 2
    /\ log[1] = Ev(1, 0, "json")
    /\ \E j \in 2..Len(log) : log[j].file = 2 /\ log[j].what = "nil"

(***************************************************************************)
(* C18: for an entry whose name is empty after the expansion of the        *)
(* environment, handleSecurityGroup returns nil without a Describe, a      *)
(* Revoke or an Authorize, and processRules goes on to the next entry.     *)
(***************************************************************************)
TakesUpNameless ==
    /\ pc[1] = "entries"
    /\ entryNo' = entryNo + 1
    /\ ExpandEnv(args[fileNo].entries[entryNo'].Name) = ""

ThmC18 ==
    [][TakesUpNameless =>
          /\ sg' = sg
          /\ cur' = cur
          /\ pc' = pc
          /\ fileNo' = fileNo
          /\ exit' = exit
          /\ log' = Append(log, Ev(fileNo, entryNo', "ignored"))]_vars

\* The first entry of a file was ignored and the second was reconciled.
WitC18 ==
    \E k \in 1..Len(log) :
        /\ log[k].what = "ignored"
        /\ log[k].entry = 1
        /\ k < Len(log)
        /\ log[k + 1] = Ev(log[k].file, 2, "nil")

(***************************************************************************)
(* rotate-keys.                                                            *)
(***************************************************************************)
\* A key was deleted.
Deleted == \E k \in 1..Len(rkops) : rkops[k].what = "delete"

\* The line the user typed: what standard input holds up to its first
\* line terminator ("\n" or "\r\n").
Typed == TrimSuffix(TrimSuffix(ReadString(stdin).text, <<"\n">>), <<"\r">>)

\* The prompt was shown and Execute has gone past it.
Prompted == Len(listed) > 1 /\ ~Force /\ rkpc \notin {"start", "list", "confirm"}

(***************************************************************************)
(* C19, as stated: a key is deleted only when the account holds two keys   *)
(* and either -force was given or the user typed exactly OK; on any other  *)
(* input no key is deleted, no key is created and the credentials file is  *)
(* unchanged.                                                              *)
(***************************************************************************)
CexC19 ==
    /\ Deleted => /\ Len(listed) = KeyQuota
                  /\ Force \/ (ReadString(stdin).ok /\ Typed = TextOK)
    /\ (Prompted /\ ~(ReadString(stdin).ok /\ Typed = TextOK))
           => rkops = <<>> /\ rkexit = <<1>>

(***************************************************************************)
(* C19, amended: a key is deleted only when the account holds two keys and *)
(* either -force was given or the line read from standard input is OK once *)
(* its line terminator and the white space around it are removed; on any   *)
(* other input (an empty or blank line, other text, a read error) no key   *)
(* is deleted, no key is created and the credentials file is unchanged.    *)
(***************************************************************************)
Consent == ReadString(stdin).ok /\ TrimSpace(Typed) = TextOK

ThmC19 ==
    /\ Deleted => /\ Len(listed) = KeyQuota
                  /\ Force \/ Consent
                  /\ rkops[1] = Change("delete", listed[1])
    /\ (Prompted /\ ~Consent)
           => /\ rkops = <<>>
              /\ rkexit = <<1>>
              /\ iamKeys = listed
              /\ credFile \in CredFiles

\* The user answered " OK " to the prompt and the oldest key is gone.
WitC19 ==
    /\ ~Force
    /\ stdin = <<" ">> \o TextOK \o <<" ">> \o Newline
    /\ Deleted
    /\ iamKeys = <<KeyCurrent>>

(***************************************************************************)
(* C20: when a filter is given, a stack name is printed, and with -policy  *)
(* has the policy applied, only if the name matches the filter, for every  *)
(* combination of -all and -status.                                        *)
(***************************************************************************)
CexC20 ==
    (filter # NoFilter /\ Compiles(filter))
    => /\ \A k \in 1..Len(printed) : MatchString(filter, printed[k].name)
       /\ \A k \in 1..Len(applied) : MatchString(filter, applied[k])

(***************************************************************************)
(* processSG: counting, errors and the port of the rule.                   *)
(***************************************************************************)
\* The number of rules of g that carry desc and are TCP on port.
ScopedCount(g, desc, port) ==
    Cardinality({r \in Labelled(g, desc) : r.proto = "tcp" /\ r.port = port})

(***************************************************************************)
(* C22, as stated: processSG counts as matches only the rules whose        *)
(* description is the label and whose permission is TCP on the requested   *)
(* port: with no such rule the call adds one without a Revoke, and it      *)
(* reports the ambiguity exactly when there are two or more such rules.    *)
(* Read in the claim's favour: the Describe call succeeded and the call    *)
(* returned.                                                               *)
(***************************************************************************)
CexC22 ==
    (Ended /\ cur[1].result \notin {"describe", "panic"})
    => LET n == ScopedCount(cur[1].pre, cur[1].desc, cur[1].port)
       IN  /\ n = 0 => /\ Len(cur[1].ops) = 1
                       /\ cur[1].ops[1].op = "Authorize"
           /\ cur[1].result = "ambiguous" <=> n > 1

(***************************************************************************)
(* C22, amended: processSG counts as matches every ingress rule whose      *)
(* description is the label, on any port and protocol.  When the Describe  *)
(* call succeeded and the call returns, it reports the ambiguity exactly   *)
(* when two or more rules carry the label, adds without a Revoke when none *)
(* does, and otherwise issues nothing or begins with the Revoke.           *)
(***************************************************************************)
ThmC22 ==
    (Ended /\ cur[1].result \notin {"describe", "panic"})
    => LET n == N(cur[1].pre, cur[1].desc)
       IN  /\ cur[1].result = "ambiguous" <=> n > 1
           /\ n = 0 => /\ Len(cur[1].ops) = 1
                       /\ cur[1].ops[1].op = "Authorize"
           /\ n = 1 => \/ cur[1].ops = <<>>
                       \/ cur[1].ops[1].op = "Revoke"

\* The ambiguity was reported for two rules with the label of which at
\* most one is TCP on the requested port.
WitC22 ==
    /\ Ended
    /\ cur[1].result = "ambiguous"
    /\ N(cur[1].pre, cur[1].desc) = 2
    /\ ScopedCount(cur[1].pre, cur[1].desc, cur[1].port) <= 1

(***************************************************************************)
(* C24: an error of the Describe call is returned with no Revoke and no    *)
(* Authorize issued; an error of Revoke or of Authorize is returned as the *)
(* failure of the call, and no call is retried.                            *)
(***************************************************************************)
OpsNamed(ops, name) == {k \in 1..Len(ops) : ops[k].op = name}

ThmC24 ==
    pc[1] \notin {"start", "idle"} =>
      LET c == cur[1]
      IN  /\ c.result = "describe" => (c.ops = <<>> /\ sg = c.pre)
          /\ \A k \in 1..Len(c.ops) :
                 c.ops[k].err # "" =>
                     /\ k = Len(c.ops)
                     /\ Ended
                     /\ c.result = (IF c.ops[k].op = "Revoke" THEN "remove" ELSE "add")
          /\ Cardinality(OpsNamed(c.ops, "Revoke")) <= 1
          /\ Cardinality(OpsNamed(c.ops, "Authorize")) <= 1
          /\ (Ended /\ c.result = "nil") => \A k \in 1..Len(c.ops) : c.ops[k].err = ""

\* The Authorize of a call that found no rule with the label has failed.
WitC24 ==
    /\ Ended
    /\ cur[1].result = "add"
    /\ Len(cur[1].ops) = 1
    /\ cur[1].ops[1].op = "Authorize"
    /\ cur[1].ops[1].err = "RequestError"
    /\ sg = cur[1].pre

(***************************************************************************)
(* C28: whenever processSG returns without error, the rule carrying the    *)
(* label is a TCP rule on the requested port.                              *)
(***************************************************************************)
CexC28 ==
    (Ended /\ cur[1].result = "nil")
    => /\ ScopedCount(sg, cur[1].desc, cur[1].port) = 1
       /\ \A r \in Labelled(sg, cur[1].desc) : r.proto = "tcp" /\ r.port = cur[1].port

(***************************************************************************)
(* C29: when exactly one rule has the label, with a source other than the  *)
(* desired one, the Revoke succeeds and the Authorize that follows fails,  *)
(* processSG returns an error and the group is left with no rule carrying  *)
(* the label.                                                              *)
(***************************************************************************)
CexC29 ==
    (/\ OneStale
     /\ Ended
     /\ Len(cur[1].ops) = 2
     /\ cur[1].ops[1].err = ""
     /\ cur[1].ops[2].err # "")
    => /\ cur[1].result = "add"
       /\ N(sg, cur[1].desc) = 0

(***************************************************************************)
(* HandleRoles: the text of a line.                                        *)
(***************************************************************************)
\* The invocations C23 asks for, for the lines from k on: one per line
\* whose trimmed text is not skipped, with the trimmed text as the role
\* assumed and its 5th colon-delimited field as the account.
RECURSIVE ExpectedTrimmed(_, _)
ExpectedTrimmed(ls, k) ==
    IF k > Len(ls) THEN <<>>
    ELSE LET role == TrimSpace(ls[k])
         IN  (IF Skipped(role) THEN <<>> ELSE <<<<role, Split(role)[5], k>>>>)
             \o ExpectedTrimmed(ls, k + 1)

(***************************************************************************)
(* C23: the white space around each line of the role file is removed       *)
(* before the comment filter, the prefix filter, the role assumption and   *)
(* the split are applied: an indented role line is processed with its      *)
(* trimmed text and a line of white space is skipped.  Stated for role     *)
(* files whose role lines have their five fields.                          *)
(***************************************************************************)
CexC23 ==
    (/\ \A k \in 1..Len(lines) : lines[k] # LineShort
     /\ ReadWholeFile)
    => [k \in 1..Len(calls) |-> <<calls[k].creds, calls[k].account, calls[k].line>>]
           = ExpectedTrimmed(lines, 1)

(***************************************************************************)
(* C27: for every content of the role file HandleRoles returns its list    *)
(* of errors and does not crash: every line that passes the filters has a  *)
(* field of index 4.                                                       *)
(***************************************************************************)
CexC27 == hrpc # "panicked"

(***************************************************************************)
(* whitelist-self: the order of the run.                                   *)
(***************************************************************************)
\* The entry the run is at, as handleSecurityGroup receives it.
EntryAt(f, e) ==
    LET entry == args[f].entries[e]
    IN  [desc |-> ExpandEnv(entry.Name),
         port |-> IF entry.Port = 0 THEN 443 ELSE entry.Port]

\* A call of processSG is under way.
Reconciling == pc[1] \in {"describe", "count", "add", "done"}

\* The events of the log are in the order of the files and, within a file,
\* of its entries.
LogInOrder(l) ==
    \A j, k \in 1..Len(l) :
        j < k => \/ l[j].file < l[k].file
                 \/ l[j].file = l[k].file /\ l[j].entry < l[k].entry

(***************************************************************************)
(* C25: the files are taken in the order of the arguments, one after the   *)
(* other and only between two calls of processRules; the entries of a file *)
(* are taken in the order of the file, each only after the call of         *)
(* processSG for the entry before it has returned; every call to the       *)
(* service and every change of the group is made for the entry the run is  *)
(* at; and what is recorded of the run is in that order.                   *)
(***************************************************************************)
ThmC25 ==
    [][/\ fileNo' \in {fileNo, fileNo + 1}
       /\ fileNo' = fileNo + 1 => pc[1] = "files" /\ entryNo' = 0
       /\ fileNo' = fileNo => entryNo' \in {entryNo, entryNo + 1}
       /\ (fileNo' = fileNo /\ entryNo' = entryNo + 1) =>
             /\ pc[1] = "entries"
             /\ ~Reconciling
             /\ pc'[1] = "describe" =>
                   /\ cur'[1].desc = EntryAt(fileNo', entryNo').desc
                   /\ cur'[1].port = EntryAt(fileNo', entryNo').port
                   /\ cur'[1].ops = <<>>
       /\ (sg' # sg \/ cur'[1].ops # cur[1].ops) =>
             \/ pc[1] = "entries" /\ pc'[1] = "describe" /\ sg' = sg
             \/ /\ Reconciling
                /\ fileNo' = fileNo /\ entryNo' = entryNo
                /\ cur'[1].desc = EntryAt(fileNo, entryNo).desc
                /\ cur'[1].port = EntryAt(fileNo, entryNo).port
                /\ Len(cur'[1].ops) = Len(cur[1].ops) + 1
       /\ LogInOrder(log')
       /\ \A k \in 1..Len(log') : log'[k].file <= fileNo'
      ]_vars

\* The second entry of the second file has had its call to the service,
\* after the first file and the first entry were dealt with.
WitC25 ==
    /\ fileNo = 2
    /\ entryNo = 2
    /\ pc[1] = "done"
    /\ Len(cur[1].ops) >= 1
    /\ \E k \in 1..Len(log) : log[k].file = 1
    /\ \E k \in 1..Len(log) : log[k].file = 2 /\ log[k].entry = 1

(***************************************************************************)
(* rotate-keys: the order of the run.                                      *)
(***************************************************************************)
\* The positions of rkops that hold a change of that kind.
Changes(ops, what) == {k \in 1..Len(ops) : ops[k].what = what}

AllOutside(ns) == \A j \in 1..Len(ns) : ~Contains(ns[j], Aws)

\* The line was printed.
Reported(what, name) == \E k \in 1..Len(shown) : shown[k] = Shown(what, name)

(***************************************************************************)
(* C21: once orphaned-zones has printed its results, a zone whose lookup   *)
(* succeeded is reported ORPHAN exactly when no nameserver hostname of its *)
(* answer contains "aws", and VALID otherwise.                             *)
(***************************************************************************)
CexC21 ==
    zexit = <<0>> =>
        \A k \in 1..Len(zones) :
            ~zones[k].answer.err =>
                /\ Reported("ORPHAN", zones[k].name) <=> AllOutside(zones[k].answer.ns)
                /\ Reported("VALID", zones[k].name) <=> ~AllOutside(zones[k].answer.ns)

(***************************************************************************)
(* stacks with a role file: whose stacks.                                  *)
(***************************************************************************)
(***************************************************************************)
(* C26: with a role file, every invocation of DisplayStacks lists and      *)
(* updates the stacks of the account of the role assumed for it, with the  *)
(* credentials HandleRoles built for that role.                            *)
(***************************************************************************)
CexC26 ==
    \A k \in 1..Len(cf) :
        cf[k].line > 0 =>
            /\ cf[k].sess = cf[k].svc
            /\ cf[k].owner = cf[k].account

====
